---- MODULE Spec2Model ----
(***************************************************************************)
(* Model of opcua/server/internal_server.py: the InternalServer (session   *)
(* factory, discovery registry) and the InternalSession (identity          *)
(* allocation, state machine, subscription bookkeeping, copy isolation).   *)
(*                                                                         *)
(* Every handler is cut at the places where another thread can run: the    *)
(* position of a thread inside a handler is thr[t].pc, named after the     *)
(* source line it is about to execute.  Under Spec, SpecSubs and           *)
(* SpecDispatch one caller runs the handlers one after the other; under    *)
(* SpecIdsConc, SpecConc and SpecCloseRace two callers interleave; under   *)
(* SpecServer the clock task runs on the thread of the event loop.         *)
(***************************************************************************)
EXTENDS Integers, Sequences, FiniteSets, TLC

\* ------------------------------------------------------------------ bounds
MaxSessions == 3      \* session objects ever constructed (the server's own included)
MaxSubs == 2          \* subscription ids the engine issues
MaxIds == 2           \* length of an id list a client hands to delete_subscriptions
MaxObjects == 5       \* value objects ever allocated (those of the address space included)
MaxNodes == 2         \* length of a NodesToWrite or NodesToRead list
MaxServers == 2       \* entries of the discovery registry
MaxFilters == 2       \* length of a find_servers filter list
MaxEndpoints == 2     \* endpoints added to the server
MaxTime == 3          \* seconds the wall clock runs for

\* --------------------------------------------------------- program constants
CounterStart == 10        \* InternalSession._counter
AuthCounterStart == 1000  \* InternalSession._auth_counter

None == 0                 \* Python's None for an integer-valued attribute not yet set
Threads == {1, 2}
Users == {"Admin", "Anonymous"}
Nonces == {1, 2}          \* the values utils.create_nonce may return

VARIABLES
  counter,             \* InternalSession._counter (class attribute)
  auth_counter,        \* InternalSession._auth_counter (class attribute)
  sess,                \* the InternalSession objects, in order of construction
  allow_remote_admin,  \* InternalServer.allow_remote_admin
  engine,              \* the subscription engine (SubscriptionService)
  thr,                 \* per thread: position, locals and the last call's outcome
  heap,                \* the value objects (ua.DataValue) in memory: heap[o] is the content of object o
  store,               \* the address space: the object each attribute's value refers to
  caller,              \* the objects the callers of read and write hold references to
  endpoints,           \* InternalServer.endpoints
  known_servers,       \* InternalServer._known_servers, in insertion order
  latest,              \* per application URI, the descriptor of its latest registration
  last,                \* the call made last on the server, and what it returned
  now,                 \* the wall clock (datetime.utcnow), in seconds since the server was made
  clock,               \* the event loop, the clock task on it, and the caller of stop
  notifier,            \* per source node, its EventNotifier attribute (a byte)
  history              \* the history manager: the sources it historizes, whether it was stopped

\* the address space and the objects around it
attrVars == <<heap, store, caller>>
\* the discovery registry
discVars == <<endpoints, known_servers, latest, last>>
\* the server's background work and the history of events
srvVars == <<now, clock, notifier, history>>
\* what the session handlers never touch
nonSession == <<attrVars, discVars, srvVars>>
\* the sessions, the identity counters and the subscription engine
sessVars == <<counter, auth_counter, sess, allow_remote_admin, engine>>

vars == <<counter, auth_counter, sess, allow_remote_admin, engine, thr, nonSession>>

\* ----------------------------------------------------------------- helpers
Range(q) == {q[i] : i \in 1..Len(q)}

\* list.remove(x): drops the first occurrence of x
RECURSIVE Remove(_, _)
Remove(q, x) ==
  IF q = <<>> THEN <<>>
  ELSE IF Head(q) = x THEN Tail(q)
  ELSE <<Head(q)>> \o Remove(Tail(q), x)

\* the id lists a client may hand to delete_subscriptions
RECURSIVE SeqsUpTo(_, _)
SeqsUpTo(S, n) ==
  IF n = 0 THEN {<<>>}
  ELSE LET shorter == SeqsUpTo(S, n - 1)
       IN shorter \cup {Append(q, x) : q \in {r \in shorter : Len(r) = n - 1}, x \in S}

IdLists == SeqsUpTo(1..MaxSubs, MaxIds)

\* the identity tokens a client may present to activate_session
IdTokens ==
  {[kind |-> "Anonymous", UserName |-> ""]} \cup
  {[kind |-> "UserName", UserName |-> n] : n \in {"admin", "Admin", "ADMIN", "bob"}}

NoSession ==
  [user |-> "Anonymous", external |-> FALSE, nonce |-> None, state |-> "None",
   session_id |-> None, authentication_token |-> None, subscriptions |-> <<>>,
   lock |-> None]

\* a thread between two calls.  pre is the subscription list the session had when
\* close_session or delete_subscriptions was called, was the state it had when
\* close_session was called (both dropped when the call returns); err is the status code of the ServiceError the last call raised,
\* "none" when it returned normally
IdleThread ==
  [pc |-> "idle", op |-> "none", self |-> None, ids |-> <<>>, k |-> 0, reg |-> 0,
   res |-> 0, tok |-> [kind |-> "Anonymous", UserName |-> ""], pre |-> <<>>,
   was |-> "none", err |-> "none"]

Idle(t) == thr[t].pc = "idle"

\* a thread leaves its handler: locals dropped, the outcome kept
Return(outcome) == [IdleThread EXCEPT !.err = outcome]

\* the session objects whose constructor has returned
UnderConstruction(s) ==
  \E t \in Threads : thr[t].op = "__init__" /\ thr[t].self = s
Constructed == {s \in 1..Len(sess) : ~UnderConstruction(s)}

\* ----------------------------------------------- the subscription engine
\* SubscriptionService.create_subscription: a fresh id, now live
SubscriptionService_create_subscription(e) ==
  [e EXCEPT !.live = @ \cup {e.next}, !.next = @ + 1]

\* SubscriptionService.delete_subscriptions: cancels the live ids among ids,
\* answers a bad status (no exception) for the others
SubscriptionService_delete_subscriptions(e, ids) ==
  [e EXCEPT !.live = @ \ Range(ids)]

\* ------------------------------------------------ the address space, values
Values == {0, 1}            \* the contents a value object may have
Attrs == {"a1", "a2"}       \* the attributes of the address space that are read and written

\* copy.deepcopy of each object of refs, in order: the heap with the copies appended
DeepCopyHeap(h, refs) == h \o [i \in 1..Len(refs) |-> h[refs[i]]]
\* ... and the references to the copies
DeepCopyRefs(h, refs) == [i \in 1..Len(refs) |-> Len(h) + i]

\* AttributeService.write: each attribute now refers to the object it was handed
RECURSIVE AttributeService_write(_, _)
AttributeService_write(st, ntws) ==
  IF ntws = <<>> THEN st
  ELSE AttributeService_write([st EXCEPT ![Head(ntws).attr] = Head(ntws).Value], Tail(ntws))

\* AttributeService.read: the objects the attributes refer to
AttributeService_read(st, attrs) == [i \in 1..Len(attrs) |-> st[attrs[i]]]

\* the value a read of attribute a returns
ReadValue(a) == heap[store[a]]

\* -------------------------------------------------- the discovery registry
\* strings are sequences of characters
Colon == ":"
Uri_uf == <<"u", ":", "f">>
Uri_uf1 == <<"u", ":", "f", ":", "1">>
Uri_ufo == <<"u", ":", "f", "o">>
Uri_xuf == <<"x", ":", "u", ":", "f">>
UriPool == {Uri_uf, Uri_uf1, Uri_ufo, Uri_xuf}
FilterPool == {Uri_uf, Uri_uf1, <<"x">>}
ProductUris == {"p1", "p2"}

\* str.split(":")
RECURSIVE Split(_)
Split(str) ==
  IF str = <<>> THEN << <<>> >>
  ELSE LET rest == Split(Tail(str))
       IN IF Head(str) = Colon
          THEN << <<>> >> \o rest
          ELSE << <<Head(str)>> \o Head(rest) >> \o Tail(rest)

\* q[:n]
Slice(q, n) == SubSeq(q, 1, IF n < Len(q) THEN n ELSE Len(q))

\* the RegisteredServer objects a server may register with
RegisteredServer(uri, product) ==
  [ServerUri |-> uri, ProductUri |-> product, ServerNames |-> <<"name">>,
   ServerType |-> "Server", GatewayServerUri |-> "", DiscoveryUrls |-> <<>>]
ServerPool ==
  {RegisteredServer(u, "p1") : u \in UriPool} \cup {RegisteredServer(Uri_uf, p) : p \in ProductUris}
\* the server that registers with a discovery configuration
Server2 == RegisteredServer(Uri_uf, "p2")

\* an endpoint URL as the server's configuration writes it: scheme://authority/path,
\* a string being the sequence of its pieces
Url(scheme, authority, path) == <<scheme, ":", "/", "/">> \o authority \o path

\* the endpoint descriptions add_endpoint may be given
EndpointDescription(uri, product) ==
  [Server |-> [ApplicationUri |-> uri, ProductUri |-> product, ApplicationName |-> "name",
               ApplicationType |-> "Server", GatewayServerUri |-> "",
               DiscoveryUrls |-> <<>>],
   EndpointUrl |-> Url("opc.tcp", <<"0.0.0.0", ":", "4840">>, <<"/", "server">>)]
EndpointPool == {EndpointDescription(Uri_uf, "p1"), EndpointDescription(Uri_uf1, "p2")}

\* class ServerDesc, lines 39-42
ServerDesc(serv, cap) == [Server |-> serv, Capabilities |-> cap]

\* d[key] = value on a dict kept in insertion order: an entry <<key, value>>
HasKey(d, key) == \E i \in 1..Len(d) : d[i][1] = key

\* d[key] = value always adding an entry
DictSet_append(d, key, value) == Append(d, <<key, value>>)

DictSet(d, key, value) ==
  IF HasKey(d, key)
  THEN [i \in 1..Len(d) |-> IF d[i][1] = key THEN <<key, value>> ELSE d[i]]
  ELSE Append(d, <<key, value>>)

\* the test of line 141 on unsplit strings (startswith)
Matches_startswith(serv_uri, uri) == Slice(serv_uri, Len(uri)) = uri

\* lines 138, 140-141: serv_uri[:len(uri)] == uri on the ":"-split strings
Matches(serv_uri, uri) ==
  LET a == Split(serv_uri)
      b == Split(uri)
  IN Slice(a, Len(b)) = b

\* lines 139-143: the loop over the filters, left at the first match
RECURSIVE FilterLoop(_, _)
FilterLoop(serv, uris) ==
  IF uris = <<>> THEN <<>>
  ELSE IF Matches(serv.Server.ApplicationUri, Head(uris)) THEN <<serv.Server>>
  ELSE FilterLoop(serv, Tail(uris))

\* lines 136-144: the loop over the registry's values
RECURSIVE ServerLoop(_, _)
ServerLoop(d, uris) ==
  IF d = <<>> THEN <<>>
  ELSE FilterLoop(Head(d)[2], uris) \o ServerLoop(Tail(d), uris)

\* InternalServer.find_servers; a ServerUris of None takes the branch of the empty list
FindServers(d, ServerUris) ==
  IF ServerUris = <<>>
  THEN [i \in 1..Len(d) |-> d[i][2].Server]
  ELSE ServerLoop(d, ServerUris)

\* lines 147-153: the ua.ApplicationDescription built from the registering server
ApplicationDescription(server) ==
  [ApplicationUri |-> server.ServerUri, ProductUri |-> server.ProductUri,
   ApplicationName |-> server.ServerNames[1], ApplicationType |-> server.ServerType,
   GatewayServerUri |-> server.GatewayServerUri, DiscoveryUrls |-> server.DiscoveryUrls]

\* InternalServer.register_server, line 154
RegisterServer(d, server, conf) ==
  DictSet(d, server.ServerUri, ServerDesc(ApplicationDescription(server), conf))

\* InternalServer.start, lines 95-96
RECURSIVE RegisterEndpoints(_, _)
RegisterEndpoints(d, edps) ==
  IF edps = <<>> THEN d
  ELSE RegisterEndpoints(
         DictSet(d, Head(edps).Server.ApplicationUri, ServerDesc(Head(edps).Server, "None")),
         Tail(edps))

\* the descriptor an application URI is registered with, as a list of none or one
Registered(d, uri) ==
  IF HasKey(d, uri)
  THEN <<(CHOOSE e \in Range(d) : e[1] = uri)[2].Server>>
  ELSE <<>>

\* the nodes whose events may be historized
Sources == {"n1", "n2"}
\* the values of an EventNotifier attribute: bit 0 SubscribeToEvents, bit 2 HistoryRead
Bytes == 0..7

\* the event loop before InternalServer.start: not running, nothing scheduled
NoClock ==
  [running |-> FALSE, timer |-> None, pc |-> "idle", stop |-> "no", current_time |-> None]

NoCall ==
  [op |-> "none", ServerUris |-> <<>>, sockname |-> <<>>, source |-> "",
   result |-> <<>>, replaced |-> FALSE]

InitNonSession ==
  /\ heap = <<0, 0>>
  /\ store = [a \in Attrs |-> IF a = "a1" THEN 1 ELSE 2]
  /\ caller = [own |-> {}, got |-> {}, req |-> {}, ext |-> {}]
  /\ endpoints = <<>>
  /\ known_servers = <<>>
  /\ latest = [u \in UriPool |-> <<>>]
  /\ last = NoCall
  /\ now = 0
  /\ clock = NoClock
  /\ notifier = [n \in Sources |-> 0]
  /\ history = [events |-> {}, stopped |-> FALSE]

\* ----------------------------------------------------------------- Init
\* InternalServer.__init__ constructs the server's own session "Internal"
InternalSession0 ==
  [user |-> "Admin", external |-> FALSE, nonce |-> None, state |-> "Created",
   session_id |-> CounterStart, authentication_token |-> AuthCounterStart,
   subscriptions |-> <<>>, lock |-> None]

Init ==
  /\ counter = CounterStart + 1
  /\ auth_counter = AuthCounterStart + 1
  /\ sess = <<InternalSession0>>
  /\ allow_remote_admin = TRUE
  /\ engine = [live |-> {}, next |-> 1]
  /\ thr = [t \in Threads |-> IdleThread]
  /\ InitNonSession

\* ------------------------------------------------ InternalSession.__init__
\* lines 204-213 (reached through InternalServer.create_session, line 160)
init_204(t, user, external) ==
  /\ Idle(t)
  /\ sess' = Append(sess, [NoSession EXCEPT !.user = user, !.external = external,
                                            !.state = "Created"])
  /\ thr' = [thr EXCEPT ![t] = [IdleThread EXCEPT !.pc = "init_214", !.op = "__init__",
                                                  !.self = Len(sess) + 1]]
  /\ UNCHANGED <<counter, auth_counter, allow_remote_admin, engine>>
  /\ UNCHANGED nonSession

\* line 214: self.session_id = ua.NodeId(self._counter)
init_214(t) ==
  /\ thr[t].pc = "init_214"
  /\ sess' = [sess EXCEPT ![thr[t].self].session_id = counter]
  /\ thr' = [thr EXCEPT ![t].pc = "init_215_load"]
  /\ UNCHANGED <<counter, auth_counter, allow_remote_admin, engine>>
  /\ UNCHANGED nonSession

\* line 215, first half: the read of InternalSession._counter
init_215_load(t) ==
  /\ thr[t].pc = "init_215_load"
  /\ thr' = [thr EXCEPT ![t].pc = "init_215_store", ![t].reg = counter]
  /\ UNCHANGED <<counter, auth_counter, sess, allow_remote_admin, engine>>
  /\ UNCHANGED nonSession

\* init_215_store with the increment lost: the counter is stored back as it was read
init_215_store_noinc(t) ==
  /\ thr[t].pc = "init_215_store"
  /\ counter' = thr[t].reg
  /\ thr' = [thr EXCEPT ![t].pc = "init_216", ![t].reg = 0]
  /\ UNCHANGED <<auth_counter, sess, allow_remote_admin, engine>>
  /\ UNCHANGED nonSession

\* line 215, second half: the store of the incremented value
init_215_store(t) ==
  /\ thr[t].pc = "init_215_store"
  /\ counter' = thr[t].reg + 1
  /\ thr' = [thr EXCEPT ![t].pc = "init_216", ![t].reg = 0]
  /\ UNCHANGED <<auth_counter, sess, allow_remote_admin, engine>>
  /\ UNCHANGED nonSession

\* line 216: self.authentication_token = ua.NodeId(self._auth_counter)
init_216(t) ==
  /\ thr[t].pc = "init_216"
  /\ sess' = [sess EXCEPT ![thr[t].self].authentication_token = auth_counter]
  /\ thr' = [thr EXCEPT ![t].pc = "init_217_load"]
  /\ UNCHANGED <<counter, auth_counter, allow_remote_admin, engine>>
  /\ UNCHANGED nonSession

\* line 217, first half: the read of InternalSession._auth_counter
init_217_load(t) ==
  /\ thr[t].pc = "init_217_load"
  /\ thr' = [thr EXCEPT ![t].pc = "init_217_store", ![t].reg = auth_counter]
  /\ UNCHANGED <<counter, auth_counter, sess, allow_remote_admin, engine>>
  /\ UNCHANGED nonSession

\* line 217, second half: the store of the incremented value
init_217_store(t) ==
  /\ thr[t].pc = "init_217_store"
  /\ auth_counter' = thr[t].reg + 1
  /\ thr' = [thr EXCEPT ![t].pc = "init_218", ![t].reg = 0]
  /\ UNCHANGED <<counter, sess, allow_remote_admin, engine>>
  /\ UNCHANGED nonSession

\* lines 218-220: the empty subscription list, the lock; the constructor returns
init_218(t) ==
  /\ thr[t].pc = "init_218"
  /\ sess' = [sess EXCEPT ![thr[t].self].subscriptions = <<>>,
                          ![thr[t].self].lock = None]
  /\ thr' = [thr EXCEPT ![t] = Return("none")]
  /\ UNCHANGED <<counter, auth_counter, allow_remote_admin, engine>>
  /\ UNCHANGED nonSession

\* ------------------------------------------ InternalSession.activate_session
\* UserName in ("admin", "Admin"), line 259
IsAdminName(n) == n \in {"admin", "Admin"}

\* the test of line 250 refusing only a second activation
ActivationRefused_activated(state) == state = "Activated"

\* the test of line 250 refusing only a closed session
ActivationRefused_closed(state) == state = "Closed"

\* the test of line 250: activation is refused unless the state is Created
ActivationRefused(state) == state # "Created"

\* activate_session_248 drawing the nonce (line 252) before the state check
activate_session_248_nonce_first(t, s, tok, n) ==
  /\ Idle(t)
  /\ s \in Constructed
  /\ sess' = [sess EXCEPT ![s].nonce = n]
  /\ thr' = [thr EXCEPT ![t] =
               IF ActivationRefused(sess[s].state)
               THEN Return("BadSessionIdInvalid")
               ELSE [IdleThread EXCEPT !.pc = "activate_session_256",
                                       !.op = "activate_session", !.self = s,
                                       !.tok = tok]]
  /\ UNCHANGED <<counter, auth_counter, allow_remote_admin, engine>>
  /\ UNCHANGED nonSession

\* lines 248-255: the state check (raising BadSessionIdInvalid), the fresh nonce n
\* drawn by utils.create_nonce
activate_session_248(t, s, tok, n) ==
  /\ Idle(t)
  /\ s \in Constructed
  /\ IF ActivationRefused(sess[s].state)
     THEN /\ thr' = [thr EXCEPT ![t] =
                       Return("BadSessionIdInvalid")]
          /\ sess' = sess
     ELSE /\ sess' = [sess EXCEPT ![s].nonce = n]
          /\ thr' = [thr EXCEPT ![t] =
                       [IdleThread EXCEPT !.pc = "activate_session_256",
                                          !.op = "activate_session", !.self = s,
                                          !.tok = tok]]
  /\ UNCHANGED <<counter, auth_counter, allow_remote_admin, engine>>
  /\ UNCHANGED nonSession

\* line 256: self.state = SessionState.Activated
activate_session_256(t) ==
  /\ thr[t].pc = "activate_session_256"
  /\ sess' = [sess EXCEPT ![thr[t].self].state = "Activated"]
  /\ thr' = [thr EXCEPT ![t].pc = "activate_session_257"]
  /\ UNCHANGED <<counter, auth_counter, allow_remote_admin, engine>>
  /\ UNCHANGED nonSession

\* lines 257-262: the role decision; the result is returned
activate_session_257(t) ==
  /\ thr[t].pc = "activate_session_257"
  /\ sess' = [sess EXCEPT ![thr[t].self].user =
                IF /\ thr[t].tok.kind = "UserName"
                   /\ allow_remote_admin
                   /\ IsAdminName(thr[t].tok.UserName)
                THEN "Admin" ELSE @]
  /\ thr' = [thr EXCEPT ![t] =
               Return("none")]
  /\ UNCHANGED <<counter, auth_counter, allow_remote_admin, engine>>
  /\ UNCHANGED nonSession

\* ---------------------------------------- InternalSession.create_subscription
\* create_subscription refusing a closed session as activate_session does
create_subscription_305_checked(t, s) ==
  /\ Idle(t)
  /\ s \in Constructed
  /\ sess[s].state = "Closed"
  /\ thr' = [thr EXCEPT ![t] = Return("BadSessionIdInvalid")]
  /\ UNCHANGED <<counter, auth_counter, sess, allow_remote_admin, engine>>
  /\ UNCHANGED nonSession

\* line 305: the engine creates the subscription and returns its id
create_subscription_305(t, s) ==
  /\ Idle(t)
  /\ s \in Constructed
  /\ engine' = SubscriptionService_create_subscription(engine)
  /\ thr' = [thr EXCEPT ![t] =
               [IdleThread EXCEPT !.pc = "create_subscription_306",
                                  !.op = "create_subscription", !.self = s,
                                  !.res = engine.next]]
  /\ UNCHANGED <<counter, auth_counter, sess, allow_remote_admin>>
  /\ UNCHANGED nonSession

\* line 306: with self._lock (waits while another thread holds it)
create_subscription_306(t) ==
  /\ thr[t].pc = "create_subscription_306"
  /\ sess[thr[t].self].lock = None
  /\ sess' = [sess EXCEPT ![thr[t].self].lock = t]
  /\ thr' = [thr EXCEPT ![t].pc = "create_subscription_307"]
  /\ UNCHANGED <<counter, auth_counter, allow_remote_admin, engine>>
  /\ UNCHANGED nonSession

\* lines 307-308: the append, the lock released, the result returned
create_subscription_307(t) ==
  /\ thr[t].pc = "create_subscription_307"
  /\ sess' = [sess EXCEPT ![thr[t].self].subscriptions = Append(@, thr[t].res),
                          ![thr[t].self].lock = None]
  /\ thr' = [thr EXCEPT ![t] =
               Return("none")]
  /\ UNCHANGED <<counter, auth_counter, allow_remote_admin, engine>>
  /\ UNCHANGED nonSession

\* --------------------------------------- InternalSession.delete_subscriptions
\* line 319: a client's call with an id list of its choosing
delete_subscriptions_319(t, s, ids) ==
  /\ Idle(t)
  /\ s \in Constructed
  /\ thr' = [thr EXCEPT ![t] =
               [IdleThread EXCEPT !.pc = "delete_subscriptions_320",
                                  !.op = "delete_subscriptions", !.self = s,
                                  !.ids = ids, !.k = 1,
                                  !.pre = sess[s].subscriptions]]
  /\ UNCHANGED <<counter, auth_counter, sess, allow_remote_admin, engine>>
  /\ UNCHANGED nonSession

\* lines 320-321: the next id of the list, the lock taken for it; the loop ends
\* when the list is exhausted
delete_subscriptions_320(t) ==
  /\ thr[t].pc = "delete_subscriptions_320"
  /\ IF thr[t].k > Len(thr[t].ids)
     THEN /\ thr' = [thr EXCEPT ![t].pc = "delete_subscriptions_324"]
          /\ sess' = sess
     ELSE /\ sess[thr[t].self].lock = None
          /\ sess' = [sess EXCEPT ![thr[t].self].lock = t]
          /\ thr' = [thr EXCEPT ![t].pc = "delete_subscriptions_322"]
  /\ UNCHANGED <<counter, auth_counter, allow_remote_admin, engine>>
  /\ UNCHANGED nonSession

\* lines 322-323: the membership test and the removal, then the lock released
delete_subscriptions_322(t) ==
  /\ thr[t].pc = "delete_subscriptions_322"
  /\ LET i == thr[t].ids[thr[t].k]
     IN sess' = [sess EXCEPT ![thr[t].self].subscriptions =
                               IF i \in Range(@) THEN Remove(@, i) ELSE @,
                             ![thr[t].self].lock = None]
  /\ thr' = [thr EXCEPT ![t].pc = "delete_subscriptions_320", ![t].k = @ + 1]
  /\ UNCHANGED <<counter, auth_counter, allow_remote_admin, engine>>
  /\ UNCHANGED nonSession

\* delete_subscriptions_324 handing the engine only the ids the session owned
delete_subscriptions_324_owned(t) ==
  /\ thr[t].pc = "delete_subscriptions_324"
  /\ engine' = SubscriptionService_delete_subscriptions(
                  engine, SelectSeq(thr[t].ids, LAMBDA i : i \in Range(thr[t].pre)))
  /\ thr' = [thr EXCEPT ![t] = Return("none")]
  /\ UNCHANGED <<counter, auth_counter, sess, allow_remote_admin>>
  /\ UNCHANGED nonSession

\* line 324: the list as given goes to the engine; the call (and close_session,
\* when it made the call) returns
delete_subscriptions_324(t) ==
  /\ thr[t].pc = "delete_subscriptions_324"
  /\ engine' = SubscriptionService_delete_subscriptions(engine, thr[t].ids)
  /\ thr' = [thr EXCEPT ![t] = Return("none")]
  /\ UNCHANGED <<counter, auth_counter, sess, allow_remote_admin>>
  /\ UNCHANGED nonSession

\* --------------------------------------------- InternalSession.close_session
\* lines 243-244: self.state = SessionState.Closed
close_session_243(t, s) ==
  /\ Idle(t)
  /\ s \in Constructed
  /\ sess' = [sess EXCEPT ![s].state = "Closed"]
  /\ thr' = [thr EXCEPT ![t] =
               [IdleThread EXCEPT !.pc = "close_session_245", !.op = "close_session",
                                  !.self = s,
                                  !.pre = sess[s].subscriptions,
                                  !.was = sess[s].state]]
  /\ UNCHANGED <<counter, auth_counter, allow_remote_admin, engine>>
  /\ UNCHANGED nonSession

\* close_session_245 handing delete_subscriptions an empty list
close_session_245_nothing(t) ==
  /\ thr[t].pc = "close_session_245"
  /\ thr' = [thr EXCEPT ![t].pc = "delete_subscriptions_320", ![t].ids = <<>>, ![t].k = 1]
  /\ UNCHANGED <<counter, auth_counter, sess, allow_remote_admin, engine>>
  /\ UNCHANGED nonSession

\* line 245: self.subscriptions[:] is read, with no lock taken, and handed to
\* delete_subscriptions
close_session_245(t) ==
  /\ thr[t].pc = "close_session_245"
  /\ thr' = [thr EXCEPT ![t].pc = "delete_subscriptions_320",
                        ![t].ids = sess[thr[t].self].subscriptions, ![t].k = 1]
  /\ UNCHANGED <<counter, auth_counter, sess, allow_remote_admin, engine>>
  /\ UNCHANGED nonSession

\* ------------------------------------------------- the forwarded requests
\* browse, translate_browsepaths_to_nodeids, add_nodes, delete_nodes,
\* add_references, delete_references, call (lines 280-302): one call of the
\* collaborator, no test of self.state, no attribute of the session assigned
forward(t, s) ==
  /\ Idle(t)
  /\ s \in Constructed
  /\ thr' = [thr EXCEPT ![t] = Return("none")]
  /\ UNCHANGED <<counter, auth_counter, sess, allow_remote_admin, engine>>
  /\ UNCHANGED nonSession

\* ------------------------------------------- InternalSession.read and write
\* a caller builds a value object: the in-process user of an internal session
\* (who = "own") or the transport layer decoding a client's message (who = "ext")
new_value(who, v) ==
  /\ Len(heap) < MaxObjects
  /\ heap' = Append(heap, v)
  /\ caller' = [caller EXCEPT ![who] = @ \cup {Len(heap) + 1}]
  /\ UNCHANGED <<store, sessVars, thr, srvVars, discVars>>

\* a caller changes, in place, an object it holds a reference to
mutate(o, v) ==
  /\ o \in caller.own \cup caller.got \cup caller.req \cup caller.ext
  /\ heap[o] # v
  /\ heap' = [heap EXCEPT ![o] = v]
  /\ UNCHANGED <<store, caller, sessVars, thr, srvVars, discVars>>

\* line 274: an internal session copies what it is handed
WriteCopies(external) == ~external

\* line 266: an internal session copies what it returns
ReadCopies(external) == ~external

\* the NodesToWrite lists a caller may build from the objects refs
NodesToWrite(refs) == SeqsUpTo([attr : Attrs, Value : refs], MaxNodes)

\* lines 273-278.  For an internal session params.NodesToWrite is rebound to the
\* copies (line 277): after the call the caller's request refers to them.
write(t, s, ntws) ==
  /\ Idle(t)
  /\ s \in Constructed
  /\ IF WriteCopies(sess[s].external)
     THEN LET refs == [i \in 1..Len(ntws) |-> ntws[i].Value]
              copies == DeepCopyRefs(heap, refs)
              copied == [i \in 1..Len(ntws) |->
                           [attr |-> ntws[i].attr, Value |-> copies[i]]]
          IN /\ Len(heap) + Len(ntws) <= MaxObjects
             /\ heap' = DeepCopyHeap(heap, refs)
             /\ caller' = [caller EXCEPT !.req = @ \cup Range(copies)]
             /\ store' = AttributeService_write(store, copied)
     ELSE /\ heap' = heap
          /\ caller' = caller
          /\ store' = AttributeService_write(store, ntws)
  /\ thr' = [thr EXCEPT ![t] = Return("none")]
  /\ UNCHANGED <<sessVars, discVars, srvVars>>

\* lines 264-268: the caller now holds the results, copies for an internal session
read(t, s, attrs) ==
  LET results == AttributeService_read(store, attrs)
  IN /\ Idle(t)
     /\ s \in Constructed
     /\ IF ReadCopies(sess[s].external)
        THEN /\ Len(heap) + Len(results) <= MaxObjects
             /\ heap' = DeepCopyHeap(heap, results)
             /\ caller' = [caller EXCEPT !.got = @ \cup Range(DeepCopyRefs(heap, results))]
        ELSE /\ heap' = heap
             /\ caller' = [caller EXCEPT !.ext = @ \cup Range(results)]
     /\ thr' = [thr EXCEPT ![t] = Return("none")]
     /\ UNCHANGED <<store, sessVars, discVars, srvVars>>

\* ------------------------------------------------ InternalServer, discovery
\* line 117
add_endpoint(edp) ==
  /\ Len(endpoints) < MaxEndpoints
  /\ endpoints' = Append(endpoints, edp)
  /\ last' = NoCall
  /\ UNCHANGED <<known_servers, latest, sessVars, thr, srvVars, attrVars>>

\* lines 93-101: every endpoint's server is entered in the registry; the event
\* loop is started; the first run of _set_current_time, made by the caller itself,
\* writes the time and schedules the next run one second later (lines 109-110;
\* disabled_clock is False, line 52)
start ==
  LET after == RegisterEndpoints(known_servers, endpoints)
      uris == {endpoints[i].Server.ApplicationUri : i \in 1..Len(endpoints)}
      lastOf(u) == CHOOSE i \in 1..Len(endpoints) :
                     /\ endpoints[i].Server.ApplicationUri = u
                     /\ \A j \in i + 1..Len(endpoints) : endpoints[j].Server.ApplicationUri # u
  IN /\ Len(after) <= MaxServers
     /\ known_servers' = after
     /\ latest' = [u \in UriPool |->
                     IF u \in uris THEN <<endpoints[lastOf(u)].Server>> ELSE latest[u]]
     /\ last' = [NoCall EXCEPT !.op = "start",
                               !.replaced = \E u \in uris :
                                  /\ latest[u] # <<>>
                                  /\ latest[u] # <<endpoints[lastOf(u)].Server>>]
     /\ clock' = [clock EXCEPT !.running = TRUE, !.current_time = now, !.timer = now + 1]
     /\ UNCHANGED <<endpoints, sessVars, thr, now, notifier, history, attrVars>>

\* lines 146-154, and through line 157
Register(server, conf) ==
  /\ HasKey(known_servers, server.ServerUri) \/ Len(known_servers) < MaxServers
  /\ known_servers' = RegisterServer(known_servers, server, conf)
  /\ latest' = [latest EXCEPT ![server.ServerUri] = <<ApplicationDescription(server)>>]
  /\ last' = [NoCall EXCEPT !.op = "register_server",
                            !.replaced = /\ latest[server.ServerUri] # <<>>
                                         /\ latest[server.ServerUri] #
                                              <<ApplicationDescription(server)>>]
  /\ UNCHANGED <<endpoints, sessVars, thr, srvVars, attrVars>>

\* line 146, conf left at its default
register_server(server) == Register(server, "None")

\* lines 156-157
register_server2(params) == Register(params.Server, params.DiscoveryConfiguration)

\* lines 133-144
find_servers(params) ==
  /\ last' = [NoCall EXCEPT !.op = "find_servers", !.ServerUris = params.ServerUris,
                            !.result = FindServers(known_servers, params.ServerUris)]
  /\ UNCHANGED <<endpoints, known_servers, latest, sessVars, thr, srvVars, attrVars>>

\* ----------------------------------------------- InternalServer.get_endpoints
\* the position of the first x in q from position i on, Len(q) + 1 when there is none
RECURSIVE Find(_, _, _)
Find(q, x, i) ==
  IF i > Len(q) THEN Len(q) + 1
  ELSE IF q[i] = x THEN i
  ELSE Find(q, x, i + 1)

\* urlparse, line 127: the scheme is what precedes the first ":"; after "//" the
\* netloc runs to the next "/"; the path is what follows.  (The URLs here have no
\* parameters, query or fragment, and their scheme is in lower case already.)
urlparse(url) ==
  LET c == Find(url, ":", 1)
      rest == SubSeq(url, c + 1, Len(url))
      authority == Len(rest) >= 2 /\ rest[1] = "/" /\ rest[2] = "/"
      e == Find(rest, "/", 3)
  IN [scheme |-> SubSeq(url, 1, c - 1),
      netloc |-> IF authority THEN SubSeq(rest, 3, e - 1) ELSE <<>>,
      path |-> IF authority THEN SubSeq(rest, e, Len(rest)) ELSE rest]

\* ParseResult.geturl, line 129
geturl(u) ==
  u.scheme \o <<":">> \o
    (IF u.netloc = <<>> THEN u.path
     ELSE <<"/", "/">> \o u.netloc \o
          (IF u.path # <<>> /\ Head(u.path) # "/" THEN <<"/">> ELSE <<>>) \o u.path)

\* sockname[0] + ":" + str(sockname[1]), line 128
Netloc(sockname) == <<sockname[1], ":", sockname[2]>>

\* Rewrite assigning the new URL to the stored endpoint itself, without the copy
Rewrite_inplace(edp, sockname) ==
  LET edp1 == [edp EXCEPT !.EndpointUrl =
                 geturl([urlparse(edp.EndpointUrl) EXCEPT !.netloc = Netloc(sockname)])]
  IN [stored |-> edp1, returned |-> edp1]

\* lines 126-129, one turn of the loop: the URL of the shallow copy edp1 is
\* assigned, the stored endpoint edp keeps its own
Rewrite(edp, sockname) ==
  [stored |-> edp,
   returned |-> [edp EXCEPT !.EndpointUrl =
                   geturl([urlparse(edp.EndpointUrl) EXCEPT !.netloc = Netloc(sockname)])]]

\* lines 119-131; sockname is <<>> for None
get_endpoints(params, sockname) ==
  /\ IF sockname # <<>>
     THEN /\ endpoints' = [i \in 1..Len(endpoints) |-> Rewrite(endpoints[i], sockname).stored]
          /\ last' = [NoCall EXCEPT !.op = "get_endpoints", !.sockname = sockname,
                        !.result = [i \in 1..Len(endpoints) |->
                                      Rewrite(endpoints[i], sockname).returned]]
     ELSE /\ endpoints' = endpoints
          /\ last' = [NoCall EXCEPT !.op = "get_endpoints", !.result = endpoints]
  /\ UNCHANGED <<known_servers, latest, sessVars, thr, srvVars, attrVars>>

\* ------------------------------------- InternalServer, clock task and stop
\* time passes
second_passes ==
  /\ now < MaxTime
  /\ now' = now + 1
  /\ UNCHANGED <<clock, notifier, history, sessVars, thr, attrVars, discVars>>

\* the event loop, running and with no callback in progress, finds the scheduled
\* run due and begins it: _set_current_time is entered on the loop's thread
timer_fires ==
  /\ clock.running
  /\ clock.pc = "idle"
  /\ clock.timer # None
  /\ clock.timer <= now
  /\ clock' = [clock EXCEPT !.pc = "set_current_time_109", !.timer = None]
  /\ UNCHANGED <<now, notifier, history, sessVars, thr, attrVars, discVars>>

\* line 109: self.current_time_node.set_value(datetime.utcnow())
set_current_time_109 ==
  /\ clock.pc = "set_current_time_109"
  /\ clock' = [clock EXCEPT !.pc = "set_current_time_110", !.current_time = now]
  /\ UNCHANGED <<now, notifier, history, sessVars, thr, attrVars, discVars>>

\* line 110: self.loop.call_later(1, self._set_current_time); the run ends
set_current_time_110 ==
  /\ clock.pc = "set_current_time_110"
  /\ clock' = [clock EXCEPT !.pc = "idle", !.timer = now + 1]
  /\ UNCHANGED <<now, notifier, history, sessVars, thr, attrVars, discVars>>

\* ThreadLoop.stop: the loop begins no further callback.  It is called on the
\* thread of the caller of stop, and returns whatever the loop's thread is doing.
ThreadLoop_stop(c) == [c EXCEPT !.running = FALSE]

\* lines 103-105: self.loop.stop()
stop_105 ==
  /\ clock.running
  /\ clock.stop = "no"
  /\ clock' = [ThreadLoop_stop(clock) EXCEPT !.stop = "stop_106"]
  /\ UNCHANGED <<now, notifier, history, sessVars, thr, attrVars, discVars>>

\* line 106: self.history_manager.stop(); stop returns
stop_106 ==
  /\ clock.stop = "stop_106"
  /\ clock' = [clock EXCEPT !.stop = "returned"]
  /\ history' = [history EXCEPT !.stopped = TRUE]
  /\ UNCHANGED <<now, notifier, sessVars, thr, attrVars, discVars>>

\* ----------------------------------------- InternalServer.enable_history_event
\* a user of the address space writes the EventNotifier attribute of a node
set_event_notifier(source, v) ==
  /\ notifier[source] # v
  /\ notifier' = [notifier EXCEPT ![source] = v]
  /\ last' = NoCall
  /\ UNCHANGED <<now, clock, history, endpoints, known_servers, latest, sessVars, thr,
                 attrVars>>

\* ua_binary.set_bit(data, offset): data | (1 << offset)
set_bit(data, offset) ==
  IF (data \div (2 ^ offset)) % 2 = 1 THEN data ELSE data + 2 ^ offset

\* the test of line 186 passing whatever the attribute holds
SupportsEvents_always(value) == TRUE

\* line 186: source_event_notifier.Value.Value & 1 == 1
SupportsEvents(value) == value % 2 = 1

\* lines 180-190
enable_history_event(source) ==
  /\ IF SupportsEvents(notifier[source])
     THEN /\ notifier' = [notifier EXCEPT ![source] = set_bit(@, 2)]
          /\ history' = [history EXCEPT !.events = @ \cup {source}]
     ELSE /\ notifier' = notifier
          /\ history' = history
  /\ last' = [NoCall EXCEPT !.op = "enable_history_event", !.source = source]
  /\ UNCHANGED <<now, clock, endpoints, known_servers, latest, sessVars, thr, attrVars>>

\* ------------------------------------------------------------ specifications
\* the steps inside each handler
StepInit(t) ==
  \/ init_214(t)
  \/ init_215_load(t)
  \/ init_215_store(t)
  \/ init_216(t)
  \/ init_217_load(t)
  \/ init_217_store(t)
  \/ init_218(t)

StepActivate(t) ==
  \/ activate_session_256(t)
  \/ activate_session_257(t)

StepCreateSubscription(t) ==
  \/ create_subscription_306(t)
  \/ create_subscription_307(t)

StepDeleteSubscriptions(t) ==
  \/ delete_subscriptions_320(t)
  \/ delete_subscriptions_322(t)
  \/ delete_subscriptions_324(t)

\* session construction, while fewer than MaxSessions session objects exist
Construct(t) == Len(sess) < MaxSessions /\ init_204(t, "Anonymous", FALSE)

\* the session lifecycle: construction, activation with every identity token and
\* nonce, close, and the requests that are only forwarded
Call(t) ==
  \/ Construct(t)
  \/ \E s \in 1..Len(sess), tok \in IdTokens, n \in Nonces :
       activate_session_248(t, s, tok, n)
  \/ \E s \in 1..Len(sess) : close_session_243(t, s)
  \/ \E s \in 1..Len(sess) : forward(t, s)

\* One caller: each handler runs to its end before the next call.  No subscription
\* is created, so the loop of delete_subscriptions ends at once (line 320) and its
\* body (line 322) is never reached.
Next ==
  \/ Call(1)
  \/ StepInit(1)
  \/ StepActivate(1)
  \/ close_session_245(1)
  \/ delete_subscriptions_320(1)
  \/ delete_subscriptions_324(1)

Spec == Init /\ [][Next]_vars

\* concurrent callers constructing sessions
NextIdsConc == \E t \in Threads : Construct(t) \/ StepInit(t)

SpecIdsConc == Init /\ [][NextIdsConc]_vars

\* The subscription requests on the sessions of one server.  The start is the state
\* after InternalServer() and one create_session(): the server's session and a
\* client's, sharing the subscription engine.
InitSubs ==
  /\ counter = CounterStart + 2
  /\ auth_counter = AuthCounterStart + 2
  /\ sess = <<InternalSession0,
              [InternalSession0 EXCEPT !.user = "Anonymous",
                                       !.session_id = CounterStart + 1,
                                       !.authentication_token = AuthCounterStart + 1]>>
  /\ allow_remote_admin = TRUE
  /\ engine = [live |-> {}, next |-> 1]
  /\ thr = [t \in Threads |-> IdleThread]
  /\ InitNonSession

CallSubs(t) ==
  \/ \E s \in 1..Len(sess) : engine.next <= MaxSubs /\ create_subscription_305(t, s)
  \/ \E s \in 1..Len(sess), ids \in IdLists : delete_subscriptions_319(t, s, ids)
  \/ \E s \in 1..Len(sess) : close_session_243(t, s)

StepSubs(t) ==
  \/ StepCreateSubscription(t)
  \/ StepDeleteSubscriptions(t)
  \/ close_session_245(t)

\* one caller: each handler runs to its end before the next call
NextSubs == CallSubs(1) \/ StepSubs(1)

SpecSubs == InitSubs /\ [][NextSubs]_vars

\* two callers, interleaved at every step
NextConc == \E t \in Threads : CallSubs(t) \/ StepSubs(t)

SpecConc == InitSubs /\ [][NextConc]_vars

\* Reads and writes of the address space through the server's internal session and
\* through an external one.  The start is the state after InternalServer() and
\* create_session(external=True).
InitAttr ==
  /\ counter = CounterStart + 2
  /\ auth_counter = AuthCounterStart + 2
  /\ sess = <<InternalSession0,
              [InternalSession0 EXCEPT !.user = "Anonymous", !.external = TRUE,
                                       !.session_id = CounterStart + 1,
                                       !.authentication_token = AuthCounterStart + 1]>>
  /\ allow_remote_admin = TRUE
  /\ engine = [live |-> {}, next |-> 1]
  /\ thr = [t \in Threads |-> IdleThread]
  /\ InitNonSession

\* the objects the caller of session s may hand to write
Passable(s) == IF sess[s].external THEN caller.ext ELSE caller.own

NextAttr ==
  \/ \E who \in {"own", "ext"}, v \in Values : new_value(who, v)
  \/ \E s \in 1..Len(sess) : \E ntws \in NodesToWrite(Passable(s)) : write(1, s, ntws)
  \/ \E s \in 1..Len(sess), attrs \in SeqsUpTo(Attrs, MaxNodes) : read(1, s, attrs)
  \/ \E o \in 1..Len(heap), v \in Values : mutate(o, v)

SpecAttr == InitAttr /\ [][NextAttr]_vars

\* the discovery registry of a server (each endpoint is added once: a second copy
\* of an endpoint would only be registered again with the same descriptor)
NextDisc ==
  \/ \E edp \in EndpointPool \ Range(endpoints) : add_endpoint(edp)
  \/ start
  \/ \E server \in ServerPool : register_server(server)
  \/ register_server2([Server |-> Server2, DiscoveryConfiguration |-> "mdns"])
  \/ \E uris \in SeqsUpTo(FilterPool, MaxFilters) : find_servers([ServerUris |-> uris])

SpecDisc == Init /\ [][NextDisc]_vars

\* The endpoints of a server and the clients asking for them.
Schemes == {"opc.tcp"}
Authorities == {<<"0.0.0.0", ":", "4840">>, <<"h0">>}
Paths == {<<>>, <<"/">>, <<"/", "a", "/", "b">>}
\* the addresses clients connected to
Socknames == {<<"c1", "1">>, <<"c2", "2">>}

NextEndpoints ==
  \/ \E sc \in Schemes, au \in Authorities, pa \in Paths :
       add_endpoint([EndpointDescription(Uri_uf, "p1") EXCEPT !.EndpointUrl = Url(sc, au, pa)])
  \/ \E sockname \in Socknames \cup {<<>>} : get_endpoints(None, sockname)

SpecEndpoints == Init /\ [][NextEndpoints]_vars

\* A server from start to stop: the caller of start and stop on one thread, the
\* clock task on the thread of the event loop.
NextServer ==
  \/ clock = NoClock /\ start
  \/ second_passes
  \/ timer_fires
  \/ set_current_time_109
  \/ set_current_time_110
  \/ stop_105
  \/ stop_106
  \/ \E source \in Sources, v \in Bytes : set_event_notifier(source, v)
  \/ \E source \in Sources : enable_history_event(source)

SpecServer == Init /\ [][NextServer]_vars

\* Every request on sessions in every state: the server's session and a client's
\* external one are activated and closed, and read, written, browsed and given
\* subscriptions whatever their state.
CallDispatch(t) ==
  \/ \E s \in 1..Len(sess) :
       activate_session_248(t, s, [kind |-> "Anonymous", UserName |-> ""], 1)
  \/ \E s \in 1..Len(sess) : close_session_243(t, s)
  \/ \E s \in 1..Len(sess) : forward(t, s)
  \/ \E s \in 1..Len(sess) : read(t, s, <<"a1">>)
  \/ \E s \in 1..Len(sess) : \E ntws \in SeqsUpTo([attr : {"a1"}, Value : Passable(s)], 1) :
       write(t, s, ntws)
  \/ \E s \in 1..Len(sess) : engine.next <= MaxSubs /\ create_subscription_305(t, s)
  \/ \E s \in 1..Len(sess), i \in 1..MaxSubs : delete_subscriptions_319(t, s, <<i>>)

NextDispatch ==
  \/ CallDispatch(1)
  \/ StepActivate(1)
  \/ StepSubs(1)

SpecDispatch == InitAttr /\ [][NextDispatch]_vars

\* A close_session called while a create_subscription on the same session is under
\* way: thread 1 creates subscriptions on sessions that are not closed, thread 2
\* closes the session thread 1 is working on.
NextCloseRace ==
  \/ \E s \in 1..Len(sess) :
       /\ sess[s].state # "Closed"
       /\ engine.next <= MaxSubs
       /\ create_subscription_305(1, s)
  \/ StepCreateSubscription(1)
  \/ thr[1].op = "create_subscription" /\ close_session_243(2, thr[1].self)
  \/ close_session_245(2)
  \/ StepDeleteSubscriptions(2)

SpecCloseRace == InitSubs /\ [][NextCloseRace]_vars

\* ------------------------------------------------------------------ claims
\* C1: over session constructions interleaved with close_session calls, the
\* session_id values issued are pairwise distinct and so are the
\* authentication_token values, those of closed sessions included.
C1_IdentitiesDistinct ==
  \A a, b \in 1..Len(sess) :
    a # b =>
      /\ (sess[a].session_id # None /\ sess[b].session_id # None
            => sess[a].session_id # sess[b].session_id)
      /\ (sess[a].authentication_token # None /\ sess[b].authentication_token # None
            => sess[a].authentication_token # sess[b].authentication_token)

\* a session was closed and three sessions hold their identities
C1_Witness ==
  /\ Len(sess) = 3
  /\ Constructed = {1, 2, 3}
  /\ sess[2].state = "Closed"
  /\ sess[3].state = "Created"

\* C2: when threads run the InternalSession constructor at the same time, no two
\* sessions receive the same session_id and no two the same authentication_token.
C2_ConcurrentIdentitiesDistinct ==
  \A a, b \in Constructed :
    a # b =>
      /\ sess[a].session_id # sess[b].session_id
      /\ sess[a].authentication_token # sess[b].authentication_token

\* C3: activate_session proceeds only from state Created; called on a session that
\* is Activated or Closed it raises BadSessionIdInvalid and returns no result.
C3_ActivateOnlyFromCreated ==
  [][/\ (Idle(1) /\ thr'[1].op = "activate_session")
          => sess[thr'[1].self].state = "Created"
     /\ \A s \in 1..Len(sess), tok \in IdTokens, n \in Nonces :
          (activate_session_248(1, s, tok, n) /\ sess[s].state \in {"Activated", "Closed"})
            => thr'[1].pc = "idle" /\ thr'[1].err = "BadSessionIdInvalid"]_vars

\* an activation was refused on a server holding an activated and a closed session
C3_Witness ==
  /\ thr[1].err = "BadSessionIdInvalid"
  /\ \E a, b \in Constructed : sess[a].state = "Activated" /\ sess[b].state = "Closed"

\* C4: over calls made one after the other, no step moves a session's state to an
\* earlier value in the order Created, Activated, Closed; Closed is terminal.
StateRank(state) ==
  CASE state = "Created" -> 0 [] state = "Activated" -> 1 [] state = "Closed" -> 2

C4_StateMonotonic ==
  [][\A s \in 1..Len(sess) : StateRank(sess[s].state) <= StateRank(sess'[s].state)]_vars

\* a session that was activated and then closed, and an activation refused since
C4_Witness ==
  /\ Len(sess) = 3
  /\ thr[1].err = "BadSessionIdInvalid"
  /\ sess[2].state = "Closed"
  /\ sess[2].nonce # None
  /\ sess[3].state = "Activated"

\* C5: when close_session, with nothing else running, returns for a session that
\* owned the ids S when it was called, the state is Closed, the owned list is empty,
\* every id of S was in the list handed to the engine and none of S is live; no
\* error is raised, also when S is empty.
C5_CloseTearsDown ==
  [][(thr[1].op = "close_session" /\ thr[1].pc = "delete_subscriptions_324")
       => /\ thr'[1].pc = "idle"
          /\ thr'[1].err = "none"
          /\ sess'[thr[1].self].state = "Closed"
          /\ sess'[thr[1].self].subscriptions = <<>>
          /\ Range(thr[1].pre) \subseteq Range(thr[1].ids)
          /\ Range(thr[1].pre) \cap engine'.live = {}]_vars

\* close_session is about to return for a session that owned two subscriptions
C5_Witness ==
  /\ thr[1].op = "close_session"
  /\ thr[1].pc = "delete_subscriptions_324"
  /\ Len(thr[1].pre) = 2
  /\ sess[thr[1].self].subscriptions = <<>>

\* C6: in every reachable state every id in a session's owned list is live in the
\* engine.
C6_OwnedIdsLive ==
  \A s \in 1..Len(sess) : Range(sess[s].subscriptions) \subseteq engine.live

\* C7: a thread about to read or write a session's subscription list (the append of
\* line 307, the test and removal of lines 322-323, the copy of line 245) holds that
\* session's lock.
C7_AccessUnderLock ==
  \A t \in Threads :
    thr[t].pc \in {"create_subscription_307", "delete_subscriptions_322",
                   "close_session_245"}
      => sess[thr[t].self].lock = t

\* the objects the in-process caller of the internal session holds a reference to
HeldInProcess == caller.own \cup caller.got \cup caller.req

\* C8: the value read back for an attribute never changes through a step that
\* leaves the store's entry as it is and changes, in place, an object the
\* in-process caller of the internal session holds: an object it built and may
\* have written (own), one that read returned to it (got), or one reachable from
\* the NodesToWrite list of a request it passed to write (req).  The stored value
\* of an internal session's user changes only through write.
C8_CopyIsolation ==
  [][\A a \in Attrs :
       (store'[a] = store[a] /\ store[a] \in HeldInProcess)
         => heap'[store[a]] = heap[store[a]]]_vars

\* the segments p lead the segments q
SegmentPrefix(p, q) == Len(p) <= Len(q) /\ \A i \in 1..Len(p) : p[i] = q[i]

\* the registry entries a filter list selects
Selected(uris) ==
  {i \in 1..Len(known_servers) :
     \/ uris = <<>>
     \/ \E k \in 1..Len(uris) :
          SegmentPrefix(Split(uris[k]), Split(known_servers[i][2].Server.ApplicationUri))}

\* C9: the result of find_servers holds, once each, the descriptors of the
\* registered servers when the filter list is empty, and otherwise those of the
\* servers whose application URI split on ":" begins with the segments of one of
\* the filters; and it holds nothing else.
C9_FindServersSegmentPrefix ==
  last.op = "find_servers" =>
    LET sel == Selected(last.ServerUris)
    IN /\ Len(last.result) = Cardinality(sel)
       /\ \A i \in sel : \E j \in 1..Len(last.result) :
            last.result[j] = known_servers[i][2].Server
       /\ \A j \in 1..Len(last.result) : \E i \in sel :
            last.result[j] = known_servers[i][2].Server

\* find_servers(["u:f"]) answered on a registry holding "u:f:1", which it returns,
\* and "u:fo", which begins with the filter as a string but not as segments
C9_Witness ==
  /\ last.op = "find_servers"
  /\ last.ServerUris = <<Uri_uf>>
  /\ Registered(known_servers, Uri_uf1) # <<>>
  /\ Registered(known_servers, Uri_ufo) # <<>>
  /\ Len(last.result) = 1
  /\ last.result[1].ApplicationUri = Uri_uf1

\* C10: the registry holds at most one entry per application URI, each under the
\* URI of its descriptor, and what find_servers returns for a URI is the
\* descriptor of the latest registration of that URI and no other.
C10_OnePerUriLastWins ==
  /\ \A i, j \in 1..Len(known_servers) :
       known_servers[i][1] = known_servers[j][1] => i = j
  /\ \A i \in 1..Len(known_servers) :
       known_servers[i][2].Server.ApplicationUri = known_servers[i][1]
  /\ \A u \in UriPool :
       {r \in Range(FindServers(known_servers, <<>>)) : r.ApplicationUri = u}
         = Range(latest[u])
  /\ last.op = "find_servers" =>
       \A j \in 1..Len(last.result) :
         <<last.result[j]>> = latest[last.result[j].ApplicationUri]

\* register_server or register_server2 has just replaced the descriptor of a URI
\* by a different one
C10_Witness ==
  /\ last.replaced
  /\ last.op = "register_server"

\* str.lower() on the user names of IdTokens
LowerCase(n) == IF n \in {"admin", "Admin", "ADMIN"} THEN "admin" ELSE n

\* C11: the step that ends a successful activate_session leaves the session's user
\* Admin when the identity token is a user name token, allow_remote_admin is set
\* and the user name is "admin" in any letter case, and leaves the user as it was
\* in every other case.
C11_AdminCaseInsensitive ==
  [][thr[1].pc = "activate_session_257"
       => sess'[thr[1].self].user =
            IF /\ thr[1].tok.kind = "UserName"
               /\ allow_remote_admin
               /\ LowerCase(thr[1].tok.UserName) = "admin"
            THEN "Admin"
            ELSE sess[thr[1].self].user]_vars

\* C12: a get_endpoints call leaves the stored endpoint list as it was, URLs
\* included.  Called without a client socket it returns the stored endpoints;
\* called with the socket (host, port) it returns one descriptor per stored
\* endpoint, in stored order, equal to the stored one but for its URL, which is
\* the stored scheme and path around the authority host:port.
C12_GetEndpointsFrame ==
  [][last'.op = "get_endpoints" =>
       /\ endpoints' = endpoints
       /\ Len(last'.result) = Len(endpoints)
       /\ last'.sockname = <<>> => last'.result = endpoints
       /\ last'.sockname # <<>> =>
            \A i \in 1..Len(endpoints) : \E sc \in Schemes, au \in Authorities, pa \in Paths :
              /\ endpoints[i].EndpointUrl = Url(sc, au, pa)
              /\ last'.result[i] =
                   [endpoints[i] EXCEPT !.EndpointUrl =
                      Url(sc, <<last'.sockname[1], ":", last'.sockname[2]>>, pa)]]_vars

\* get_endpoints has answered a client at (c1, 1) on a server storing two endpoints,
\* the first with a port and a path in its URL, the second with neither
C12_Witness ==
  /\ last.op = "get_endpoints"
  /\ last.sockname = <<"c1", "1">>
  /\ Len(endpoints) = 2
  /\ endpoints[1].EndpointUrl = Url("opc.tcp", <<"0.0.0.0", ":", "4840">>, <<"/", "a", "/", "b">>)
  /\ endpoints[2].EndpointUrl = Url("opc.tcp", <<"h0">>, <<>>)
  /\ last.result[1].EndpointUrl = Url("opc.tcp", <<"c1", ":", "1">>, <<"/", "a", "/", "b">>)
  /\ last.result[2].EndpointUrl = Url("opc.tcp", <<"c1", ":", "1">>, <<>>)

\* C13: once stop has returned no step writes the current time, schedules a run of
\* the clock task, or moves a run of it forward.
C13_StopHaltsClock ==
  [][clock.stop = "returned" =>
       /\ clock'.current_time = clock.current_time
       /\ clock'.timer = clock.timer
       /\ clock'.pc = clock.pc]_vars

\* C14: a call of enable_history_event on a source whose EventNotifier has bit 0
\* set leaves that attribute with bit 2 (history read) set and its other bits as
\* they were, and the source handed to the history manager; on a source with bit
\* 0 unset it leaves every EventNotifier and the history manager as they were.
\* No other source's attribute changes in either case.
C14_EnableHistoryEvent ==
  [][\A source \in Sources :
       enable_history_event(source) =>
         /\ \A other \in Sources \ {source} : notifier'[other] = notifier[other]
         /\ IF notifier[source] % 2 = 1
            THEN /\ (notifier'[source] \div 4) % 2 = 1
                 /\ notifier'[source] % 4 = notifier[source] % 4
                 /\ notifier'[source] \div 8 = notifier[source] \div 8
                 /\ history'.events = history.events \cup {source}
            ELSE /\ notifier'[source] = notifier[source]
                 /\ history' = history]_vars

\* enable_history_event has been called on n1, which supports events and is now
\* historized, and last on n2, which does not and is not
C14_Witness ==
  /\ last.op = "enable_history_event"
  /\ last.source = "n2"
  /\ notifier["n2"] = 2
  /\ notifier["n1"] = 5
  /\ history.events = {"n1"}

\* C15 as the specification words it: when close_session, with nothing else
\* running, returns for a session that was Closed already when it was called, no
\* error is raised, the state is Closed, the owned list is as it was at the call
\* and empty, and the engine was asked to cancel no id.
C15_CloseIdempotent ==
  [][(/\ thr[1].op = "close_session"
      /\ thr[1].pc = "delete_subscriptions_324"
      /\ thr[1].was = "Closed")
       => /\ thr'[1].pc = "idle"
          /\ thr'[1].err = "none"
          /\ sess'[thr[1].self].state = "Closed"
          /\ thr[1].pre = <<>>
          /\ sess'[thr[1].self].subscriptions = thr[1].pre
          /\ thr[1].ids = <<>>]_vars

\* C15, amended: when close_session, with nothing else running, returns for a
\* session that was Closed already when it was called, no error is raised, the
\* state is Closed, the owned list is empty and the engine was asked to cancel the
\* ids the session owned at the call and no other: none, leaving the engine as it
\* was, when the session owned none.
C15_CloseAgainTearsDown ==
  [][(/\ thr[1].op = "close_session"
      /\ thr[1].pc = "delete_subscriptions_324"
      /\ thr[1].was = "Closed")
       => /\ thr'[1].pc = "idle"
          /\ thr'[1].err = "none"
          /\ sess'[thr[1].self].state = "Closed"
          /\ sess'[thr[1].self].subscriptions = <<>>
          /\ thr[1].ids = thr[1].pre
          /\ Range(thr[1].pre) \cap engine'.live = {}
          /\ thr[1].pre = <<>> => engine' = engine]_vars

\* close_session is about to return for a session that was closed before and has
\* created a subscription since, while another subscription is live
C15_Witness ==
  /\ thr[1].op = "close_session"
  /\ thr[1].pc = "delete_subscriptions_324"
  /\ thr[1].was = "Closed"
  /\ Len(thr[1].pre) = 1
  /\ engine.live \ Range(thr[1].pre) # {}

\* C16: when delete_subscriptions(ids), with nothing else running, returns, the
\* owned list is the list owned at the call without the ids of ids, the others in
\* place and in order; no error is raised for an id the session did not own; and
\* the engine was handed ids as given, so that every id of ids, owned by this
\* session or not, is live no longer.
C16_DeletePassesThrough ==
  [][(thr[1].op = "delete_subscriptions" /\ thr[1].pc = "delete_subscriptions_324")
       => /\ thr'[1].pc = "idle"
          /\ thr'[1].err = "none"
          /\ sess'[thr[1].self].subscriptions =
               SelectSeq(thr[1].pre, LAMBDA i : i \notin Range(thr[1].ids))
          /\ \A s \in 1..Len(sess) : s # thr[1].self => sess'[s] = sess[s]
          /\ engine'.live = engine.live \ Range(thr[1].ids)]_vars

\* delete_subscriptions is about to return on a session that was asked for an id
\* it owned and for a live id that another session owns
C16_Witness ==
  /\ thr[1].op = "delete_subscriptions"
  /\ thr[1].pc = "delete_subscriptions_324"
  /\ Range(thr[1].ids) \cap Range(thr[1].pre) # {}
  /\ \E s \in 1..Len(sess) :
       /\ s # thr[1].self
       /\ Range(thr[1].ids) \cap Range(sess[s].subscriptions) \cap engine.live # {}

\* C17: no call but a refused activate_session ends with BadSessionIdInvalid:
\* whatever the state of the session, a forwarded request, a read and a write
\* return normally, create_subscription reaches the engine and appends the new id
\* to the owned list, and delete_subscriptions reaches the engine.
C17_NoStateCheckOnDispatch ==
  [][/\ (thr'[1] # thr[1] /\ thr'[1].err = "BadSessionIdInvalid")
          => /\ Idle(1)
             /\ \E s \in 1..Len(sess), tok \in IdTokens, n \in Nonces :
                  activate_session_248(1, s, tok, n) /\ sess[s].state # "Created"
     /\ \A s \in 1..Len(sess) :
          /\ (forward(1, s) \/ read(1, s, <<"a1">>) \/ write(1, s, <<>>))
               => thr'[1].pc = "idle" /\ thr'[1].err = "none"
          /\ create_subscription_305(1, s) => engine'.live = engine.live \cup {engine.next}
     /\ thr[1].pc = "create_subscription_307"
          => /\ sess'[thr[1].self].subscriptions =
                  Append(sess[thr[1].self].subscriptions, thr[1].res)
             /\ thr'[1].err = "none"
     /\ (thr[1].op = "delete_subscriptions" /\ thr[1].pc = "delete_subscriptions_324")
          => /\ engine'.live = engine.live \ Range(thr[1].ids)
             /\ thr'[1].err = "none"]_vars

\* create_subscription is about to append its id to the list of a closed session
\* that has been read since it was closed
C17_Witness ==
  /\ thr[1].pc = "create_subscription_307"
  /\ sess[thr[1].self].state = "Closed"
  /\ sess[thr[1].self].external
  /\ caller.ext # {}

\* C18: once a create_subscription and a close_session called during it on the
\* same session have both returned, no id in the closed session's owned list is
\* live in the engine.
C18_NoLeakOnClose ==
  (\A t \in Threads : Idle(t))
    => \A s \in 1..Len(sess) :
         sess[s].state = "Closed" => Range(sess[s].subscriptions) \cap engine.live = {}

\* C19: an activate_session call on a session that is not in state Created raises
\* BadSessionIdInvalid and leaves the session's state, user, nonce, session_id,
\* authentication_token and owned list, and every other session, as they were.
C19_FailedActivateChangesNothing ==
  [][\A s \in 1..Len(sess), tok \in IdTokens, n \in Nonces :
       (activate_session_248(1, s, tok, n) /\ sess[s].state # "Created")
         => /\ thr'[1].pc = "idle"
            /\ thr'[1].err = "BadSessionIdInvalid"
            /\ sess'[s].state = sess[s].state
            /\ sess'[s].user = sess[s].user
            /\ sess'[s].nonce = sess[s].nonce
            /\ sess'[s].session_id = sess[s].session_id
            /\ sess'[s].authentication_token = sess[s].authentication_token
            /\ sess'[s].subscriptions = sess[s].subscriptions
            /\ sess' = sess
            /\ engine' = engine]_vars

\* an activation has been refused on a server whose sessions are an activated one
\* and a closed one that was never activated, each owning a subscription
C19_Witness ==
  /\ thr[1].pc = "idle"
  /\ thr[1].err = "BadSessionIdInvalid"
  /\ \E a, b \in 1..Len(sess) :
       /\ sess[a].state = "Activated" /\ sess[a].nonce # None
       /\ sess[b].state = "Closed" /\ sess[b].nonce = None
       /\ sess[a].subscriptions # <<>>
       /\ sess[b].subscriptions # <<>>

\* C20: a caller changing, in place, an object reachable from the NodesToWrite
\* list of a request it passed to an internal session's write, after the call
\* returned, changes the value read back for no attribute.
C20_NoReferenceThroughRequest ==
  [][\A o \in caller.req, v \in Values :
       mutate(o, v) => \A a \in Attrs : ReadValue(a)' = ReadValue(a)]_vars

====
